---- MODULE Spec2Model ----
(***************************************************************************)
(* Model of app_amazon_india_pra2.py: the load_data / prepare_data         *)
(* pipeline of the dashboard, its summary statistics, its sample with the  *)
(* size_normalized column and its two per-category aggregations.           *)
(*                                                                         *)
(* Numbers.  A float is modelled in fixed point, as a whole number of      *)
(* thousandths (4.5 is 4500, 200.01 is 200010).  A cell of a numeric or    *)
(* text-encoded numeric column is a record [k, v]:                         *)
(*    k = "num"  a float, v thousandths                                    *)
(*    k = "str"  a string whose text parses to the number v thousandths    *)
(*               (for a price "₹1,234.50", for a discount "25%")          *)
(*    k = "bad"  a string that does not parse as a number                  *)
(*    k = "nan"  a missing value (NaN)                                     *)
(*    k = "inf"  np.inf (only as a bin edge)                               *)
(*                                                                         *)
(* Frames.  A DataFrame is [cols, nlev, rows]: the set of its column       *)
(* names, the number of category_level_i columns, and its rows in order.   *)
(* Rows are run-length encoded: each element of rows is one row record     *)
(* together with n, the number of consecutive identical rows it stands     *)
(* for (they differ only in their index label, which no step reads).       *)
(* A row record carries every column the script ever creates; a column a   *)
(* frame does not have (not in cols) holds its placeholder.                *)
(*                                                                         *)
(* Objects.  heap is the sequence of DataFrame objects created so far; a   *)
(* script variable (df, df_clean, df_sample) holds the position of its     *)
(* object in heap, 0 while unbound.  In-place column assignment rewrites   *)
(* an object; copy(), boolean indexing, concat, dropna and sample create   *)
(* a new one.                                                              *)
(***************************************************************************)
EXTENDS Integers, Sequences, FiniteSets

VARIABLES heap, df, df_clean, df_sample, stats, fig_stats, cat_stats, pc, err

vars == <<heap, df, df_clean, df_sample, stats, fig_stats, cat_stats, pc, err>>

(***************************************************************************)
(* Cells                                                                   *)
(***************************************************************************)
NaN == [k |-> "nan", v |-> 0]

PosInf == [k |-> "inf", v |-> 0]

Num(x) == [k |-> "num", v |-> x]

Str(x) == [k |-> "str", v |-> x]

Bad == [k |-> "bad", v |-> 0]

\* A missing value of a text or label column.
NA == "<NA>"

\* A cell of the category column: a string "p[1]|p[2]|..." or missing.
Cat(p) == [k |-> "str", p |-> p]

NoCat == [k |-> "nan", p |-> <<>>]

IsNum(c) == c.k = "num"

IsString(c) == c.k \in {"str", "bad"}

\* isinstance(x, str)
isinstance_str(c) == IsString(c)

\* a < b and a <= b on floats and np.inf; any comparison with NaN is false.
FLt(a, b) ==
    /\ a.k = "num"
    /\ \/ b.k = "inf"
       \/ b.k = "num" /\ a.v < b.v

FLe(a, b) ==
    /\ a.k = "num"
    /\ \/ b.k = "inf"
       \/ b.k = "num" /\ a.v <= b.v

\* The least whole number >= a / b (b > 0): the fixed-point quotient, rounded
\* up so that its comparisons with whole thousandths are those of a / b.
CeilDiv(a, b) == -((-a) \div b)

Min(a, b) == IF a <= b THEN a ELSE b

Max(a, b) == IF a >= b THEN a ELSE b

(***************************************************************************)
(* Program constants                                                       *)
(***************************************************************************)
\* clean_price(rupee) / 95
RupeesPerEuro == 95

\* counts[counts >= 20]
MinSupport == 20

\* df_clean.sample(min(5000, len(df_clean)))
SampleCap == 5000

\* ... * 17 + 3
SizeSpan == 17

SizeBase == 3

\* .head(15) in category_analysis_charts, .head(12) in the comparison view
TopCharts == 15

TopComparison == 12

(***************************************************************************)
(* Frames                                                                  *)
(***************************************************************************)
RawCols == {"product_id", "category", "actual_price", "discounted_price",
            "discount_percentage", "rating", "rating_count"}

\* One run of n identical CSV rows, as pd.read_csv delivers them.  idx is the
\* run's position in the file (its rows' index labels).
CsvRow(i, r) ==
    [idx |-> i, n |-> r.n,
     product_id |-> r.product_id, category |-> r.category,
     actual_price |-> r.actual_price, discounted_price |-> r.discounted_price,
     discount_percentage |-> r.discount_percentage,
     rating |-> r.rating, rating_count |-> r.rating_count,
     levels |-> <<>>,
     price_range |-> NA, rating_category |-> NA, discount_range |-> NA,
     main_category |-> NoCat, size_normalized |-> NaN]

\* pd.read_csv("amazon.csv") for a file whose runs of rows are rs.
read_csv(rs) ==
    [cols |-> RawCols, nlev |-> 0,
     rows |-> [i \in DOMAIN rs |-> CsvRow(i, rs[i])]]

RECURSIVE SumOver(_, _)
\* The sum of w[i] for i in 1..Len(w).
SumOver(w, i) == IF i = 0 THEN 0 ELSE w[i] + SumOver(w, i - 1)

\* len(frame): the number of rows the runs stand for.
FrameLen(f) == SumOver([i \in DOMAIN f.rows |-> f.rows[i].n], Len(f.rows))

(***************************************************************************)
(* load_data                                                               *)
(***************************************************************************)
\* clean_price: strip the currency sign and the commas, float(...).  Raises
\* ValueError on text that is no number.
clean_price(c) == IF isinstance_str(c) THEN Num(c.v) ELSE c

\* to_euro: a string is cleaned and divided by 95, anything else (a float, a
\* missing value) is returned as it is.
to_euro(c) ==
    IF isinstance_str(c)
    THEN Num(CeilDiv(clean_price(c).v, RupeesPerEuro))
    ELSE c

\* float(re.sub(...)) raises ValueError.
PriceRaises(c) == c.k = "bad"

\* pd.read_csv gives a column the object dtype when the file has no rows or
\* when some value of the column is text; otherwise a numeric dtype, on which
\* the .str accessor raises AttributeError.
ObjectDtype(f, col) ==
    \/ f.rows = <<>>
    \/ \E i \in DOMAIN f.rows : IsString(f.rows[i][col])

\* .str.rstrip('%').astype(float) on one value: text becomes its number, a
\* missing value (and any value that is no text) becomes NaN.
percent_to_float(c) == IF c.k = "str" THEN Num(c.v) ELSE NaN

\* line 39
L39(f) ==
    [f EXCEPT !.rows = [i \in DOMAIN f.rows |->
        [f.rows[i] EXCEPT !.actual_price = to_euro(@)]]]

Raises39(f) == \E i \in DOMAIN f.rows : PriceRaises(f.rows[i].actual_price)

\* line 40
L40(f) ==
    [f EXCEPT !.rows = [i \in DOMAIN f.rows |->
        [f.rows[i] EXCEPT !.discounted_price = to_euro(@)]]]

Raises40(f) == \E i \in DOMAIN f.rows : PriceRaises(f.rows[i].discounted_price)

\* line 41
L41(f) ==
    [f EXCEPT !.rows = [i \in DOMAIN f.rows |->
        [f.rows[i] EXCEPT !.discount_percentage = percent_to_float(@)]]]

Raises41(f) ==
    \/ ~ObjectDtype(f, "discount_percentage")
    \/ \E i \in DOMAIN f.rows : f.rows[i].discount_percentage.k = "bad"

\* The number of columns of df['category'].str.split('|', expand=True): the
\* greatest number of parts of a category; a missing category gives one
\* (missing) part; a frame without rows gives no column at all.
SplitWidth(f) ==
    LET w == [i \in DOMAIN f.rows |->
                IF f.rows[i].category.k = "str"
                THEN Len(f.rows[i].category.p) ELSE 1]
    IN  IF f.rows = <<>> THEN 0
        ELSE CHOOSE m \in {w[i] : i \in DOMAIN w} :
                 \A i \in DOMAIN w : w[i] <= m

\* One row of the split: the parts of the category, padded with missing
\* values up to width columns.
SplitRow(c, width) ==
    [j \in 1..width |->
        IF c.k = "str" /\ j <= Len(c.p) THEN Cat(<<c.p[j]>>) ELSE NoCat]

\* lines 43-45: a new frame, df with the category_level_i columns appended.
L43_45(f) ==
    LET width == SplitWidth(f)
    IN  [cols |-> f.cols, nlev |-> width,   \* nlev columns category_level_1..
         rows |-> [i \in DOMAIN f.rows |->
            [f.rows[i] EXCEPT !.levels = SplitRow(f.rows[i].category, width)]]]

Raises43(f) == ~ObjectDtype(f, "category")

\* df['category_level_1'] raises KeyError when the split made no column.
Raises47(f) == f.nlev = 0

\* value_counts as it would be were the filter run after the cleaning: only
\* the rows with a discounted_price and a rating are counted.
value_counts_after_drop(f, c) ==
    IF c = NoCat THEN 0
    ELSE SumOver([i \in DOMAIN f.rows |->
                    IF /\ f.rows[i].levels[1] = c
                       /\ f.rows[i].discounted_price.k # "nan"
                       /\ f.rows[i].rating.k \notin {"nan", "bad"}
                    THEN f.rows[i].n ELSE 0],
                 Len(f.rows))

\* df['category_level_1'].value_counts(): the rows per value, the missing
\* values not counted.
value_counts(f, c) ==
    IF c = NoCat THEN 0
    ELSE SumOver([i \in DOMAIN f.rows |->
                    IF f.rows[i].levels[1] = c THEN f.rows[i].n ELSE 0],
                 Len(f.rows))

\* categories_to_keep with the threshold off by one (counts > 18).
categories_to_keep_off_by_one(f) ==
    {c \in {f.rows[i].levels[1] : i \in DOMAIN f.rows} :
        value_counts(f, c) > MinSupport - 2}

\* counts[counts >= 20].index.tolist()
categories_to_keep(f) ==
    {c \in {f.rows[i].levels[1] : i \in DOMAIN f.rows} :
        value_counts(f, c) >= MinSupport}

\* isin as a filter that removes the rare categories (~isin(rare)) would
\* have it: a missing value is in no list of rare values, and stays.
isin_or_missing(c, keep) == c \in keep \/ c = NoCat

\* .isin(categories_to_keep)
isin(c, keep) == c \in keep

\* line 49: a new frame, the rows whose category_level_1 is in the list.
L49(f) ==
    LET keep == categories_to_keep(f)
    IN  [f EXCEPT !.rows = SelectSeq(f.rows, LAMBDA r : isin(r.levels[1], keep))]

\* The exception load_data raises on the frame read from the file, "none"
\* when it returns.
LoadError(f) ==
    IF Raises39(f) \/ Raises40(L39(f)) THEN "ValueError"
    ELSE IF ~ObjectDtype(f, "discount_percentage") THEN "AttributeError"
    ELSE IF Raises41(L40(L39(f))) THEN "ValueError"
    ELSE IF Raises43(f) THEN "AttributeError"
    ELSE IF Raises47(L43_45(L41(L40(L39(f))))) THEN "KeyError"
    ELSE "none"

\* The objects load_data leaves behind when it raises: the frame read from
\* the file as far as lines 39-41 rewrote it, and the concat of line 45 when
\* line 47 raised.
HeapAtRaise(f) ==
    IF Raises39(f) THEN <<f>>
    ELSE IF Raises40(L39(f)) THEN <<L39(f)>>
    ELSE IF Raises41(L40(L39(f))) THEN <<L40(L39(f))>>
    ELSE IF Raises43(f) THEN <<L41(L40(L39(f)))>>
    ELSE <<L41(L40(L39(f))), L43_45(L41(L40(L39(f))))>>

\* df = load_data(): heap[1] is rewritten in place, the concat and the
\* filtered frame are new objects, df is bound to the last.
LoadData ==
    /\ pc = "load"
    /\ LoadError(heap[1]) = "none"
    /\ LET f1 == L41(L40(L39(heap[1])))
           f2 == L43_45(f1)
           f3 == L49(f2)
       IN  /\ heap' = <<f1, f2, f3>>
           /\ df' = 3
    /\ pc' = "prepare"
    /\ UNCHANGED <<df_clean, df_sample, stats, fig_stats, cat_stats, err>>

\* load_data raises: the script stops.
LoadDataRaises ==
    /\ pc = "load"
    /\ LoadError(heap[1]) # "none"
    /\ heap' = HeapAtRaise(heap[1])
    /\ err' = LoadError(heap[1])
    /\ pc' = "raised"
    /\ UNCHANGED <<df, df_clean, df_sample, stats, fig_stats, cat_stats>>

(***************************************************************************)
(* prepare_data                                                            *)
(***************************************************************************)
\* copy as it would be without the call (df = df): the same object.
copy_same_object(h, i) == [heap |-> h, id |-> i]

\* df.copy(): a new object with the same contents.  The result is the heap
\* and the position of the new object.
copy(h, i) == [heap |-> Append(h, h[i]), id |-> Len(h) + 1]

\* pd.to_numeric(..., errors='coerce') on one value: a number stays, text
\* that parses becomes its number, anything else becomes NaN.
to_numeric(c) ==
    IF c.k = "num" THEN c
    ELSE IF c.k = "str" THEN Num(c.v)
    ELSE NaN

\* .fillna(x)
fillna(c, x) == IF c.k = "nan" THEN x ELSE c

\* .clip(lower=lo)
clip_lower(c, lo) == IF c.k = "num" /\ c.v < lo THEN Num(lo) ELSE c

\* lines 58-62, in place
L58_62(f) ==
    [f EXCEPT !.rows = [i \in DOMAIN f.rows |->
        [f.rows[i] EXCEPT !.discounted_price = to_numeric(@),
                          !.actual_price = to_numeric(@),
                          !.discount_percentage = to_numeric(@),
                          !.rating = to_numeric(@),
                          !.rating_count = to_numeric(@)]]]

\* lines 64-65, in place
L64_65(f) ==
    [f EXCEPT !.rows = [i \in DOMAIN f.rows |->
        [f.rows[i] EXCEPT !.rating_count = fillna(@, Num(1000)),
                          !.discount_percentage = fillna(@, Num(0))]]]

\* dropna_keeps as dropna(..., how='all') would have it: a row is dropped
\* only when both values are missing.
dropna_keeps_how_all(r) == r.discounted_price.k # "nan" \/ r.rating.k # "nan"

\* The rows dropna(subset=['discounted_price', 'rating']) keeps.
dropna_keeps(r) == r.discounted_price.k # "nan" /\ r.rating.k # "nan"

\* line 66: a new object, the rows with both values present.
dropna(h, i) ==
    [heap |-> Append(h, [h[i] EXCEPT !.rows = SelectSeq(@, dropna_keeps)]),
     id |-> Len(h) + 1]

\* line 67, in place
L67(f) ==
    [f EXCEPT !.rows = [i \in DOMAIN f.rows |->
        [f.rows[i] EXCEPT !.rating_count = clip_lower(@, 1000)]]]

PriceBins == <<Num(0), Num(20000), Num(50000), Num(100000), Num(200000), PosInf>>

PriceLabels == <<"Molt Baix (<20)", "Baix (20-50)", "Mitjà (50-100)",
                 "Alt (100-200)", "Molt Alt (>200)">>

RatingBins == <<Num(0), Num(3000), Num(4000), Num(4500), Num(5000)>>

RatingLabels == <<"Baix (<3)", "Mitjà (3-4)", "Bo (4-4.5)", "Excel·lent (>4.5)">>

DiscountBins == <<Num(0), Num(10000), Num(25000), Num(50000), Num(100000)>>

DiscountLabels == <<"Baix (<10%)", "Mitjà (10-25%)", "Alt (25-50%)", "Molt Alt (>50%)">>

\* InBin as right=False would have it: the interval [bins[i], bins[i+1]).
InBin_right_false(x, bins, i) == FLe(bins[i], x) /\ FLt(x, bins[i + 1])

\* Whether x lies in the i-th bin of pd.cut(x, bins) with its defaults
\* right=True, include_lowest=False: the interval (bins[i], bins[i+1]].
InBin(x, bins, i) == FLt(bins[i], x) /\ FLe(x, bins[i + 1])

\* pd.cut(x, bins=bins, labels=labels) on one value: the label of the bin
\* that holds x, missing when x is missing or in no bin.
cut(x, bins, labels) ==
    IF \E i \in DOMAIN labels : InBin(x, bins, i)
    THEN labels[CHOOSE i \in DOMAIN labels : InBin(x, bins, i)]
    ELSE NA

\* lines 69-80, in place: three new columns
L69_80(f) ==
    [f EXCEPT !.cols = @ \cup {"price_range", "rating_category", "discount_range"},
              !.rows = [i \in DOMAIN f.rows |->
        [f.rows[i] EXCEPT
            !.price_range = cut(f.rows[i].discounted_price, PriceBins, PriceLabels),
            !.rating_category = cut(f.rows[i].rating, RatingBins, RatingLabels),
            !.discount_range =
                cut(f.rows[i].discount_percentage, DiscountBins, DiscountLabels)]]]

\* df['category_level_1'].fillna(df['category']) on one row
main_category_of(r) == IF r.levels[1] = NoCat THEN r.category ELSE r.levels[1]

\* line 82, in place: a new column
L82(f) ==
    [f EXCEPT !.cols = @ \cup {"main_category"},
              !.rows = [i \in DOMAIN f.rows |->
        [f.rows[i] EXCEPT !.main_category = main_category_of(f.rows[i])]]]

\* df_clean = prepare_data(df)
PrepareData ==
    /\ pc = "prepare"
    /\ LET c == copy(heap, df)
           h1 == [c.heap EXCEPT ![c.id] = L64_65(L58_62(@))]
           d == dropna(h1, c.id)
       IN  /\ heap' = [d.heap EXCEPT ![d.id] = L82(L69_80(L67(@)))]
           /\ df_clean' = d.id
    /\ pc' = "stats"
    /\ UNCHANGED <<df, df_sample, stats, fig_stats, cat_stats, err>>

(***************************************************************************)
(* Summary statistics (lines 91-93)                                        *)
(***************************************************************************)
\* Series.mean(): the mean of the values present, NaN when there is none.
mean(rows, col) ==
    LET w == [i \in DOMAIN rows |->
                IF rows[i][col].k = "num" THEN rows[i].n ELSE 0]
        t == [i \in DOMAIN rows |->
                IF rows[i][col].k = "num" THEN rows[i][col].v * rows[i].n ELSE 0]
        cnt == SumOver(w, Len(rows))
    IN  IF cnt = 0 THEN NaN ELSE Num(SumOver(t, Len(rows)) \div cnt)

Summary ==
    /\ pc = "stats"
    /\ stats' = [discounted_price |->
                    mean(heap[df_clean].rows, "discounted_price"),
                 rating |-> mean(heap[df_clean].rows, "rating"),
                 discount_percentage |->
                    mean(heap[df_clean].rows, "discount_percentage")]
    /\ pc' = "sample"
    /\ UNCHANGED <<heap, df, df_clean, df_sample, fig_stats, cat_stats, err>>

(***************************************************************************)
(* The sample and its marker size (lines 130-132)                          *)
(***************************************************************************)
RECURSIVE TakeVectors(_, _)
\* The ways to take t rows out of runs of ns[1], ns[2], ... rows: the
\* sequences k with 0 <= k[i] <= ns[i] that sum to t.
TakeVectors(ns, t) ==
    IF ns = <<>> THEN (IF t = 0 THEN {<<>>} ELSE {})
    ELSE LET rest == SumOver(Tail(ns), Len(ns) - 1)
         IN  UNION {{<<k>> \o v : v \in TakeVectors(Tail(ns), t - k)} :
                        k \in Max(0, t - rest)..Min(ns[1], t)}

Reverse(s) == [i \in DOMAIN s |-> s[Len(s) + 1 - i]]

\* The orders in which a sample lists its runs.  sample() shuffles the rows;
\* no later step reads their order, and the model keeps these two.
SampleOrders == {"kept", "reversed"}

\* df.sample(t): a new object holding t of the rows, without replacement:
\* k[i] rows of run i, listed in the given order.
sample(h, i, k, order) ==
    LET f == h[i]
        taken == [j \in DOMAIN f.rows |-> [f.rows[j] EXCEPT !.n = k[j]]]
        kept == SelectSeq(taken, LAMBDA r : r.n > 0)
    IN  [heap |-> Append(h, [f EXCEPT !.rows =
                     IF order = "reversed" THEN Reverse(kept) ELSE kept]),
         id |-> Len(h) + 1]

\* Series.min() and Series.max() of rating_count (every value is a number
\* after prepare_data); NaN for a frame without rows.
col_min(rows) ==
    IF rows = <<>> THEN NaN
    ELSE LET vs == {rows[i].rating_count.v : i \in DOMAIN rows}
         IN  Num(CHOOSE m \in vs : \A v \in vs : m <= v)

col_max(rows) ==
    IF rows = <<>> THEN NaN
    ELSE LET vs == {rows[i].rating_count.v : i \in DOMAIN rows}
         IN  Num(CHOOSE m \in vs : \A v \in vs : m >= v)

\* (x - min) / (max - min) * 17 + 3 on floats: 0 / 0 is NaN.
size_normalized_of(x, lo, hi) ==
    IF x.k # "num" \/ lo.k # "num" \/ hi.k # "num" THEN NaN
    ELSE IF hi.v = lo.v THEN NaN
    ELSE Num(((x.v - lo.v) * SizeSpan * 1000) \div (hi.v - lo.v) + SizeBase * 1000)

\* lines 131-132, in place on the sample: a new column
L131(f) ==
    LET lo == col_min(f.rows)
        hi == col_max(f.rows)
    IN  [f EXCEPT !.cols = @ \cup {"size_normalized"},
                  !.rows = [i \in DOMAIN f.rows |->
            [f.rows[i] EXCEPT !.size_normalized =
                size_normalized_of(f.rows[i].rating_count, lo, hi)]]]

Sample ==
    /\ pc = "sample"
    /\ LET ns == [j \in DOMAIN heap[df_clean].rows |-> heap[df_clean].rows[j].n]
           t == Min(SampleCap, FrameLen(heap[df_clean]))
       IN  \E k \in TakeVectors(ns, t), order \in SampleOrders :
              LET s == sample(heap, df_clean, k, order)
              IN  /\ heap' = [s.heap EXCEPT ![s.id] = L131(@)]
                  /\ df_sample' = s.id
    /\ pc' = "charts"
    /\ UNCHANGED <<df, df_clean, stats, fig_stats, cat_stats, err>>

(***************************************************************************)
(* The aggregations (lines 100-109 and 147-153)                            *)
(***************************************************************************)
\* groupby('main_category'): the distinct keys, the missing one left out, in
\* the order of their first rows.
group_keys(rows) ==
    LET first == SelectSeq([i \in DOMAIN rows |-> i],
                     LAMBDA i : /\ rows[i].main_category # NoCat
                                /\ \A j \in 1..(i - 1) :
                                      rows[j].main_category # rows[i].main_category)
    IN  [g \in DOMAIN first |-> rows[first[g]].main_category]

\* Series.sum(): the sum of the values present.
sum(rows, col) ==
    Num(SumOver([i \in DOMAIN rows |->
                    IF rows[i][col].k = "num" THEN rows[i][col].v * rows[i].n ELSE 0],
                Len(rows)))

\* Series.count(): the number of values present.
count(rows, col) ==
    Num(1000 * SumOver([i \in DOMAIN rows |->
                    IF rows[i][col].k # "nan" THEN rows[i].n ELSE 0],
                Len(rows)))

\* .round(2) on one float: to the nearest hundredth, a tie to the even one.
round2(c) ==
    IF c.k # "num" THEN c
    ELSE LET q == c.v \div 10
             r == c.v % 10
         IN  IF r < 5 THEN Num(10 * q)
             ELSE IF r > 5 THEN Num(10 * (q + 1))
             ELSE IF q % 2 = 0 THEN Num(10 * q) ELSE Num(10 * (q + 1))

\* .agg({...}).round(2) for the group of one key
agg_group(rows, key) ==
    LET g == SelectSeq(rows, LAMBDA r : r.main_category = key)
    IN  [main_category |-> key,
         rating |-> round2(mean(g, "rating")),
         rating_count |-> round2(sum(g, "rating_count")),
         discounted_price |-> round2(mean(g, "discounted_price")),
         discount_percentage |-> round2(mean(g, "discount_percentage")),
         product_id |-> round2(count(g, "product_id"))]

groupby_agg(f) ==
    LET keys == group_keys(f.rows)
    IN  [g \in DOMAIN keys |-> agg_group(f.rows, keys[g])]

\* sort_values does not promise an order among equal keys (its default sort
\* is not stable): equal groups come out in the order of the frame or in the
\* opposite one.
TieOrders == {"first", "last"}

\* sorts_before as ascending=True would have it.
sorts_before_ascending(gs, a, b, tie) ==
    \/ gs[a].rating_count.v < gs[b].rating_count.v
    \/ /\ gs[a].rating_count.v = gs[b].rating_count.v
       /\ IF tie = "first" THEN a < b ELSE a > b

\* .sort_values(by rating_count, ascending=False): group a comes before
\* group b.
sorts_before(gs, a, b, tie) ==
    \/ gs[a].rating_count.v > gs[b].rating_count.v
    \/ /\ gs[a].rating_count.v = gs[b].rating_count.v
       /\ IF tie = "first" THEN a < b ELSE a > b

sort_values(gs, tie) ==
    LET rank(a) == Cardinality({b \in DOMAIN gs : sorts_before(gs, b, a, tie)}) + 1
    IN  [r \in DOMAIN gs |-> gs[CHOOSE a \in DOMAIN gs : rank(a) = r]]

\* .head(k)
head(s, k) == SubSeq(s, 1, Min(k, Len(s)))

\* groupby(...).agg(...).round(2).sort_values(...).head(k).reset_index()
aggregate(f, k, tie) == head(sort_values(groupby_agg(f), tie), k)

\* category_analysis_charts(df_clean): its cat_stats (the columns renamed for
\* display keep the names of the aggregated ones here).
CategoryAnalysisCharts ==
    /\ pc = "charts"
    /\ \E tie \in TieOrders :
          fig_stats' = aggregate(heap[df_clean], TopCharts, tie)
    /\ pc' = "comparison"
    /\ UNCHANGED <<heap, df, df_clean, df_sample, stats, cat_stats, err>>

\* The cat_stats of the comparison view, lines 147-153.
ComparisonView ==
    /\ pc = "comparison"
    /\ \E tie \in TieOrders :
          cat_stats' = aggregate(heap[df_clean], TopComparison, tie)
    /\ pc' = "done"
    /\ UNCHANGED <<heap, df, df_clean, df_sample, stats, fig_stats, err>>

Next ==
    \/ LoadData
    \/ LoadDataRaises
    \/ PrepareData
    \/ Summary
    \/ Sample
    \/ CategoryAnalysisCharts
    \/ ComparisonView

(***************************************************************************)
(* The files read.  Each specification starts from the frame read_csv      *)
(* returns for one file of a bounded family, load_data about to run.       *)
(***************************************************************************)
\* The most runs of rows in a file of the cleaning family.
MaxRuns == 2

\* The most runs of rows in a file of the category family.
MaxCategoryRuns == 3

\* The most runs of rows in a file of the bucket family.
MaxBucketRuns == 2

\* The most categories in a file of the aggregation family.
MaxCats == 16

\* A run of n rows of the file.  actual_price is written like
\* discounted_price.
Run(category, price, discount, rating, rating_count, n) ==
    [n |-> n, product_id |-> Cat(<<"B07">>), category |-> category,
     actual_price |-> price, discounted_price |-> price,
     discount_percentage |-> discount,
     rating |-> rating, rating_count |-> rating_count]

\* pd.read_csv parses a column as numbers, or keeps all its values as text:
\* no column holds both, and a percentage ("25%") is always text.
IsCsvColumn(rs, col) ==
    ~(\E i \in DOMAIN rs : IsNum(rs[i][col]))
    \/ ~(\E i \in DOMAIN rs : IsString(rs[i][col]))

IsCsvFile(rs) ==
    /\ IsCsvColumn(rs, "discounted_price")
    /\ IsCsvColumn(rs, "rating")
    /\ IsCsvColumn(rs, "rating_count")

\* The files of at most m runs drawn from pool.
Files(pool, m) ==
    {rs \in UNION {[1..len -> pool] : len \in 0..m} : IsCsvFile(rs)}

\* "₹9,500" and "25%", rated 4.2 by 50: a row nothing is wrong with.
GoodRun(category, n) ==
    Run(category, Str(9500000), Str(25000), Num(4200), Num(50000), n)

AB == Cat(<<"A", "B">>)

\* The cleaning family: one category, and one column at a time missing,
\* malformed ("abc" for a price, "|" for a rating, "24,269" for a
\* rating_count), zero, negative, or written as text or as a number.
CleaningPool ==
    {GoodRun(AB, MinSupport), GoodRun(AB, 1)}
    \cup {Run(AB, p, Str(25000), Num(4200), Num(50000), MinSupport) :
            p \in {NaN, Str(0), Bad, Num(100000)}}
    \cup {Run(AB, Str(9500000), d, Num(4200), Num(50000), MinSupport) :
            d \in {NaN, Str(0), Str(-5000)}}
    \cup {Run(AB, Str(9500000), Str(25000), r, Num(50000), MinSupport) :
            r \in {NaN, Num(0), Str(4200), Bad}}
    \cup {Run(AB, Str(9500000), Str(25000), Num(4200), c, MinSupport) :
            c \in {NaN, Num(0), Num(1004), Num(7000), Str(50000), Bad}}

\* Files of more rows than the sample takes: a run of 4999 good rows next to
\* one run of the cleaning family.
LargeFiles ==
    {rs \in {<<GoodRun(AB, SampleCap - 1), r>> : r \in CleaningPool}
            \cup {<<r, GoodRun(AB, SampleCap - 1)>> : r \in CleaningPool} :
        IsCsvFile(rs)}

\* The category family: categories of one, two and three levels and a
\* missing one, rows that the cleaning keeps and rows it drops (no rating),
\* in runs that reach the support of 20 alone, together, or not at all.
CategoryPool ==
    {Run(c, Str(9500000), Str(25000), r, Num(50000), n) :
        c \in {AB, Cat(<<"C", "D", "E">>)}, r \in {Num(4200), NaN},
        n \in {1, MinSupport - 1, MinSupport}}
    \cup {GoodRun(Cat(<<"A">>), 1), GoodRun(NoCat, 1), GoodRun(NoCat, MinSupport)}

\* The bucket family: one column at a time on a bin edge or just above it.
EdgeValues(bins) ==
    UNION {{bins[i].v, bins[i].v + 10} : i \in {j \in DOMAIN bins : bins[j].k = "num"}}

BucketPool ==
    {Run(AB, Num(x), Str(25000), Num(4200), Num(50000), MinSupport) :
        x \in EdgeValues(PriceBins)}
    \cup {Run(AB, Str(x), Str(25000), Num(4200), Num(50000), MinSupport) :
        x \in {200000 * RupeesPerEuro, 200000 * RupeesPerEuro + 1000}}
    \cup {Run(AB, Num(100000), Str(x), Num(4200), Num(50000), MinSupport) :
        x \in EdgeValues(DiscountBins)}
    \cup {Run(AB, Num(100000), NaN, Num(4200), Num(50000), MinSupport)}
    \cup {Run(AB, Num(100000), Str(25000), Num(x), Num(50000), MinSupport) :
        x \in EdgeValues(RatingBins)}

CatNames == <<"C01", "C02", "C03", "C04", "C05", "C06", "C07", "C08", "C09",
              "C10", "C11", "C12", "C13", "C14", "C15", "C16", "C17", "C18">>

\* The aggregation family: len categories of 20 good rows each, every row
\* rated by 2 people but those of category hi (by 3) and of category lo (by
\* 1); hi = 0 or lo = 0 for no such category.
AggregationFiles ==
    {[i \in 1..len |->
        Run(Cat(<<CatNames[i], "X">>), Str(9500000), Str(25000), Num(4200),
            Num(IF i = hi THEN 3000 ELSE IF i = lo THEN 1000 ELSE 2000),
            MinSupport)] :
        len \in 0..MaxCats, hi \in 0..MaxCats, lo \in 0..MaxCats}

InitOn(files) ==
    /\ \E rs \in files : heap = <<read_csv(rs)>>
    /\ df = 0
    /\ df_clean = 0
    /\ df_sample = 0
    /\ stats = [discounted_price |-> NaN, rating |-> NaN, discount_percentage |-> NaN]
    /\ fig_stats = <<>>
    /\ cat_stats = <<>>
    /\ pc = "load"
    /\ err = "none"

Init == InitOn(Files(CleaningPool, MaxRuns) \cup LargeFiles)

InitCategories == InitOn(Files(CategoryPool, MaxCategoryRuns))

InitBuckets == InitOn(Files(BucketPool, MaxBucketRuns))

InitAggregate == InitOn(AggregationFiles)

Spec == Init /\ [][Next]_vars

SpecCategories == InitCategories /\ [][Next]_vars

SpecBuckets == InitBuckets /\ [][Next]_vars

SpecAggregate == InitAggregate /\ [][Next]_vars

(***************************************************************************)
(* Properties                                                              *)
(***************************************************************************)
\* The pipeline output (the working dataset), once prepare_data returned.
Prepared == df_clean # 0

Output == heap[df_clean].rows

\* The frame load_data returned.
Loaded == heap[df].rows

\* The decomposed frame load_data filtered: the concat of line 45.
PreFilter == heap[df - 1].rows

\* The run of the sequence rows that carries the index label i.
RowAt(rows, i) == rows[CHOOSE j \in DOMAIN rows : rows[j].idx = i]

\* The number of rows of the sequence rows whose category_level_1 is the
\* value c (a missing category_level_1 is no value: it occurs in no row).
Support(rows, c) ==
    SumOver([i \in DOMAIN rows |->
                IF c # NoCat /\ rows[i].levels[1] = c THEN rows[i].n ELSE 0],
            Len(rows))

\* C1 as amended: every row of the output of prepare_data(load_data()) has a
\* discounted_price and a rating that are present, a rating_count >= 1 and a
\* discount_percentage that is present: 0 where the loaded one was missing,
\* and otherwise the loaded number, so >= 0 exactly when that one is.
C1_CleanedRows ==
    Prepared =>
        \A i \in DOMAIN Output :
            LET r == Output[i]
                was == RowAt(Loaded, r.idx).discount_percentage
            IN  /\ r.discounted_price.k = "num"
                /\ r.rating.k = "num"
                /\ r.rating_count.k = "num" /\ r.rating_count.v >= 1000
                /\ r.discount_percentage.k = "num"
                /\ was.k = "nan" => r.discount_percentage.v = 0
                /\ was.k = "num" => r.discount_percentage.v = was.v

\* C1 as stated: ... and discount_percentage >= 0 in every row of the output.
C1_Original ==
    Prepared =>
        \A i \in DOMAIN Output :
            /\ Output[i].discounted_price.k = "num"
            /\ Output[i].rating.k = "num"
            /\ Output[i].rating_count.k = "num" /\ Output[i].rating_count.v >= 1000
            /\ Output[i].discount_percentage.k = "num"
            /\ Output[i].discount_percentage.v >= 0

\* A file where the cleaning dropped rows, filled a missing rating_count and
\* kept a negative discount.
C1_Witness ==
    /\ Prepared
    /\ FrameLen(heap[df_clean]) < FrameLen(heap[df])
    /\ \E i \in DOMAIN Output :
          \/ RowAt(Loaded, Output[i].idx).rating_count.k = "nan"
          \/ Output[i].discount_percentage.v < 0

\* C2: every row of the output has a category_level_1 that at least 20 rows
\* of the decomposed, unfiltered frame carry.
C2_CategorySupport ==
    Prepared =>
        \A i \in DOMAIN Output :
            Support(PreFilter, Output[i].levels[1]) >= MinSupport

\* An output row of a category of exactly 20 rows, from a file that also had
\* a category of fewer.
C2_Witness ==
    /\ Prepared
    /\ \E i \in DOMAIN Output :
          Support(PreFilter, Output[i].levels[1]) = MinSupport
    /\ \E j \in DOMAIN PreFilter :
          /\ PreFilter[j].levels[1] # NoCat
          /\ Support(PreFilter, PreFilter[j].levels[1]) < MinSupport

\* C3 as stated: the first bin includes its lower bound: an output row whose
\* discounted_price, rating or discount_percentage is 0 carries the lowest
\* label of price_range, rating_category or discount_range.
C3_FirstBinHoldsLowerBound ==
    Prepared =>
        \A i \in DOMAIN Output :
            /\ Output[i].discounted_price = Num(0)
                  => Output[i].price_range = PriceLabels[1]
            /\ Output[i].rating = Num(0)
                  => Output[i].rating_category = RatingLabels[1]
            /\ Output[i].discount_percentage = Num(0)
                  => Output[i].discount_range = DiscountLabels[1]

\* The label of an output row under one bucketizer matches C4: a value on an
\* edge above the lowest has the label of the bin that ends there, a value
\* above an edge and at most the next one has the label of the next bin.
UpperClosed(x, label, bins, labels) ==
    \A i \in 2..Len(bins) :
        /\ x = bins[i] => label = labels[i - 1]
        /\ (i <= Len(labels) /\ FLt(bins[i], x) /\ FLe(x, bins[i + 1]))
              => label = labels[i]

\* C4: the bins are closed on their upper bound, for the three boundary
\* lists; discounted_price = 200 is 'Alt (100-200)' and 200.01 is
\* 'Molt Alt (>200)'.
C4_UpperBoundClosed ==
    Prepared =>
        \A i \in DOMAIN Output :
            LET r == Output[i]
            IN  /\ UpperClosed(r.discounted_price, r.price_range, PriceBins, PriceLabels)
                /\ UpperClosed(r.rating, r.rating_category, RatingBins, RatingLabels)
                /\ UpperClosed(r.discount_percentage, r.discount_range,
                               DiscountBins, DiscountLabels)
                /\ r.discounted_price = Num(200000) => r.price_range = "Alt (100-200)"
                /\ r.discounted_price = Num(200010) => r.price_range = "Molt Alt (>200)"

\* An output row priced exactly 200, labelled 'Alt (100-200)'.
C4_Witness ==
    /\ Prepared
    /\ \E i \in DOMAIN Output :
          /\ Output[i].discounted_price = Num(200000)
          /\ Output[i].price_range = "Alt (100-200)"

\* C5 as stated: a file without rows runs through the pipeline without
\* raising.
C5_EmptyInputCompletes == ~(heap[1].rows = <<>> /\ pc = "raised")

\* The total rating_count of main_category c in the working dataset, as the
\* aggregation reports it (rounded to hundredths).
TotalRatings(c) ==
    round2(Num(SumOver([i \in DOMAIN Output |->
                    IF Output[i].main_category = c
                    THEN Output[i].rating_count.v * Output[i].n ELSE 0],
                Len(Output)))).v

MainCategories == {Output[i].main_category : i \in DOMAIN Output} \ {NoCat}

\* out is the aggregation C6 describes, cut at k rows.
TopK(out, k) ==
    LET shown == {out[g].main_category : g \in DOMAIN out}
    IN  /\ shown \subseteq MainCategories
        /\ \A g, h \in DOMAIN out : g # h => out[g].main_category # out[h].main_category
        /\ Len(out) = Min(k, Cardinality(MainCategories))
        /\ \A g \in DOMAIN out : out[g].rating_count.v = TotalRatings(out[g].main_category)
        /\ \A g, h \in DOMAIN out :
              g < h => out[g].rating_count.v >= out[h].rating_count.v
        /\ \A c \in MainCategories \ shown :
              \A g \in DOMAIN out : TotalRatings(c) <= out[g].rating_count.v

\* C6: each aggregation has one row per main_category of the working
\* dataset, at most 15 (charts) or 12 (comparison view) of them, in order of
\* non-increasing summed rating_count, and leaves out no category with a
\* larger sum than one it shows.
C6_TopCategories ==
    /\ pc \in {"comparison", "done"} => TopK(fig_stats, TopCharts)
    /\ pc = "done" => TopK(cat_stats, TopComparison)

\* More categories than either cut, the most rated one first and the least
\* rated one left out of both.
C6_Witness ==
    /\ pc = "done"
    /\ Len(fig_stats) = TopCharts
    /\ Len(cat_stats) = TopComparison
    /\ Cardinality(MainCategories) > TopCharts
    /\ fig_stats[1].rating_count.v > fig_stats[2].rating_count.v
    /\ \E c \in MainCategories :
          TotalRatings(c) < fig_stats[TopCharts].rating_count.v

\* C7: the filter counts the rows the cleaning later drops: a row of the
\* unfiltered frame with a discounted_price, a rating and a category_level_1
\* that at least 20 rows of that frame carry is in the output.
C7_FilterBeforeDrop ==
    Prepared =>
        \A j \in DOMAIN PreFilter :
            LET p == PreFilter[j]
            IN  (/\ to_numeric(p.discounted_price).k = "num"
                 /\ to_numeric(p.rating).k = "num"
                 /\ Support(PreFilter, p.levels[1]) >= MinSupport)
                => \E i \in DOMAIN Output :
                      Output[i].idx = p.idx /\ Output[i].n = p.n

\* A category of 20 loaded rows of which fewer than 20 are in the output.
C7_Witness ==
    /\ Prepared
    /\ \E i \in DOMAIN Output :
          /\ Support(PreFilter, Output[i].levels[1]) >= MinSupport
          /\ Support(Output, Output[i].levels[1]) < MinSupport

\* C8 as stated: in a sample that is not empty every size_normalized is a
\* number in [3, 20], 3 for the smallest rating_count of the sample and 20
\* for the largest.
C8_SizeInRange ==
    (df_sample # 0 /\ heap[df_sample].rows # <<>>) =>
        LET rows == heap[df_sample].rows
        IN  \A i \in DOMAIN rows :
                /\ rows[i].size_normalized.k = "num"
                /\ rows[i].size_normalized.v >= SizeBase * 1000
                /\ rows[i].size_normalized.v <= (SizeBase + SizeSpan) * 1000
                /\ rows[i].rating_count = col_min(rows)
                      => rows[i].size_normalized.v = SizeBase * 1000
                /\ rows[i].rating_count = col_max(rows)
                      => rows[i].size_normalized.v = (SizeBase + SizeSpan) * 1000

\* C9: once load_data returned, no step changes its frame; once prepare_data
\* returned, no step changes the working dataset.
C9_NoMutation ==
    [][/\ df # 0 => (df' = df /\ heap'[df] = heap[df])
       /\ df_clean # 0 => (df_clean' = df_clean /\ heap'[df_clean] = heap[df_clean])]_vars

\* The script has finished: prepare_data cleaned, dropped and labelled rows
\* of its own copy, and the sample got its size_normalized column.
C9_Witness ==
    /\ pc = "done"
    /\ heap[df].rows # <<>>
    /\ FrameLen(heap[df_clean]) < FrameLen(heap[df])
    /\ "main_category" \in heap[df_clean].cols \ heap[df].cols
    /\ "size_normalized" \in heap[df_sample].cols \ heap[df_clean].cols
    /\ \E i \in DOMAIN Loaded : Loaded[i].rating_count.k = "nan"

\* C10: no row that reaches prepare_data lacks category_level_1, and in the
\* output main_category is category_level_1.
C10_MainCategory ==
    /\ df # 0 => \A i \in DOMAIN Loaded : Loaded[i].levels[1] # NoCat
    /\ Prepared =>
          \A i \in DOMAIN Output :
              /\ Output[i].levels[1] # NoCat
              /\ Output[i].main_category = Output[i].levels[1]

\* An output that is not empty, from a file with rows without a category.
C10_Witness ==
    /\ Prepared
    /\ Output # <<>>
    /\ \E j \in DOMAIN PreFilter : PreFilter[j].category = NoCat

====
